---------------------------- MODULE Spec2Model ----------------------------
(***************************************************************************)
(* A model of html_to_pdf.py: the two HTML rewriting helpers               *)
(* (_inject_base_tag, _wrap_with_css), the conversion coroutine            *)
(* html_to_pdf with every await as one step that may raise, and the        *)
(* command line entry point main.                                          *)
(*                                                                         *)
(* Text is a sequence of tokens.  A token is either a single character     *)
(* or one of the fixed multi-character pieces below; the pieces are        *)
(* chosen so that the two regular expressions of the source,               *)
(* (?i)(<head[^>]*>) and (?i)(</head\s*>), and the test                    *)
(* "<head" in html.lower(), match on the token sequence exactly where      *)
(* they match on the concatenated characters: "<" occurs only as the       *)
(* first character of a token, and ">" only as the last.                   *)
(***************************************************************************)
EXTENDS Integers, Sequences, FiniteSets, TLC

\* ------------------------------------------------------------- bounds
MaxHtmlLen == 5
MaxCssLen == 2
MaxMarginLen == 4
MaxRequests == 2

\* ------------------------------------------------------------- tokens
NL == "\n"
Indent == "  "
BS == "\\"
BaseHref == "file:///b/"
StyleOpen == "<style>"
StyleClose == "</style>"

\* the characters and pieces HTML inputs are built from; "er" makes
\* <header> out of "<head", "er", ">"
HtmlTokens == {"<head", "<HEAD", "</head", ">", " ", "er"}
\* the characters CSS inputs are built from: a plain character, the
\* backslash, a letter that is no template escape, a digit
CssTokens == {"x", BS, "d", "1"}

RECURSIVE SeqsUpTo(_, _)
SeqsUpTo(S, n) ==
    IF n = 0 THEN {<<>>}
    ELSE LET shorter == SeqsUpTo(S, n - 1)
         IN  shorter \cup {Append(s, t) : s \in {u \in shorter : Len(u) = n - 1}, t \in S}

HtmlInputs == SeqsUpTo(HtmlTokens, MaxHtmlLen)
CssInputs == SeqsUpTo(CssTokens, MaxCssLen)

\* ------------------------------------------------------------- str / re
\* str.lower(), token by token
Lower(t) == IF t = "<HEAD" THEN "<head" ELSE t

\* "<head" in html.lower()
ContainsHeadPrefix(html) == \E i \in 1..Len(html) : Lower(html[i]) = "<head"

\* the token ends with the character ">"
EndsWithGt(t) ==
    t \in {">", "\">", StyleOpen, StyleClose, "<!doctype html>", "<html>",
           "<body>", "</body>", "</html>"}

\* \s
IsSpace(t) == t \in {" ", NL, Indent}

\* leftmost match of (?i)(<head[^>]*>): <<first, last>> token positions, or <<>>
HeadOpenMatch(html) ==
    LET starts == {i \in 1..Len(html) :
                      /\ Lower(html[i]) = "<head"
                      /\ \E j \in (i + 1)..Len(html) : EndsWithGt(html[j])}
    IN  IF starts = {} THEN <<>>
        ELSE LET i == CHOOSE k \in starts : \A m \in starts : k <= m
                 j == CHOOSE k \in (i + 1)..Len(html) :
                         /\ EndsWithGt(html[k])
                         /\ \A m \in (i + 1)..(k - 1) : ~EndsWithGt(html[m])
             IN  <<i, j>>

\* a match of (?i)(</head\s*>) starting at token i ends at token j
CloseMatchAt(html, i, j) ==
    /\ Lower(html[i]) = "</head"
    /\ j > i
    /\ html[j] = ">"
    /\ \A m \in (i + 1)..(j - 1) : IsSpace(html[m])

\* leftmost match of (?i)(</head\s*>): <<first, last>> token positions, or <<>>
HeadCloseMatch(html) ==
    LET starts == {i \in 1..Len(html) : \E j \in 1..Len(html) : CloseMatchAt(html, i, j)}
    IN  IF starts = {} THEN <<>>
        ELSE LET i == CHOOSE k \in starts : \A m \in starts : k <= m
                 j == CHOOSE k \in 1..Len(html) : CloseMatchAt(html, i, k)
             IN  <<i, j>>

\* re's expansion of a replacement template (sre_parse.parse_template), for the
\* part of the template that is the CSS text: a backslash starts an escape.
\* group1 is the text of group 1.  [ok |-> FALSE] is re.error.
RECURSIVE ExpandTemplate(_, _)
ExpandTemplate(t, group1) ==
    LET Then(piece, rest) ==
            LET r == ExpandTemplate(rest, group1)
            IN  IF r.ok THEN [ok |-> TRUE, out |-> piece \o r.out] ELSE r
        Drop(n) == SubSeq(t, n + 1, Len(t))
        IsDigit(k) == k <= Len(t) /\ t[k] = "1"
    IN  IF t = <<>> THEN [ok |-> TRUE, out |-> <<>>]
        ELSE IF t[1] # BS THEN Then(<<t[1]>>, Drop(1))
        \* a backslash before the newline that ends the CSS line stays as it is
        ELSE IF Len(t) = 1 THEN [ok |-> TRUE, out |-> <<BS>>]
        ELSE IF t[2] = BS THEN Then(<<BS>>, Drop(2))
        ELSE IF t[2] = "1" THEN
            IF IsDigit(3)
            THEN IF IsDigit(4)
                 THEN Then(<<"I">>, Drop(4))                 \* octal escape \111
                 ELSE [ok |-> FALSE, out |-> <<>>]           \* invalid group reference 11
            ELSE Then(group1, Drop(2))                       \* \1
        ELSE [ok |-> FALSE, out |-> <<>>]                    \* bad escape \d, \x


\* ------------------------------------------------------------- helpers
\* f'<base href="{base_href}">'
base_tag(base_href) == <<"<base href=\"", base_href, "\">">>

\* f"<style>\n{css_text}\n</style>", with the CSS part already expanded or verbatim
style_tag(css_part) == <<StyleOpen, NL>> \o css_part \o <<NL, StyleClose>>

Raised == [ok |-> FALSE, out |-> <<>>]
Returned(text) == [ok |-> TRUE, out |-> text]

\* _inject_base_tag(html, base_href): re.sub(r"(?i)(<head[^>]*>)", r"\1\n  " + base_tag, html, count=1)
_inject_base_tag(html, base_href) ==
    IF ContainsHeadPrefix(html)
    THEN LET m == HeadOpenMatch(html)
         IN  IF m = <<>> THEN Returned(html)
             ELSE Returned(SubSeq(html, 1, m[2]) \o <<NL, Indent>> \o base_tag(base_href)
                           \o SubSeq(html, m[2] + 1, Len(html)))
    ELSE Returned(<<"<!doctype html>", "<html>", "<head", ">">> \o base_tag(base_href)
                  \o <<"</head", ">", "<body>">> \o html \o <<"</body>", "</html>">>)

\* _wrap_with_css(html, css_text): re.sub(r"(?i)(</head\s*>)", style_tag + r"\n\1", html, count=1);
\* the template is parsed, and may raise, before the pattern is searched
_wrap_with_css(html, css_text) ==
    IF ContainsHeadPrefix(html)
    THEN LET m == HeadCloseMatch(html)
             group1 == IF m = <<>> THEN <<>> ELSE SubSeq(html, m[1], m[2])
             tpl == ExpandTemplate(css_text, group1)
         IN  IF ~tpl.ok THEN Raised
             ELSE IF m = <<>> THEN Returned(html)
             ELSE Returned(SubSeq(html, 1, m[1] - 1) \o style_tag(tpl.out) \o <<NL>> \o group1
                           \o SubSeq(html, m[2] + 1, Len(html)))
    ELSE Returned(<<"<!doctype html>", "<html>", "<head", ">">> \o style_tag(css_text)
                  \o <<"</head", ">", "<body>">> \o html \o <<"</body>", "</html>">>)


\* ------------------------------------------------------------- URLs
\* a URL is the sequence of its characters, as the browser serialises it
TmpHtmlUri == <<"f","i","l","e",":","/","/","/","t","/","i">>
LocalImgUrl == <<"f","i","l","e",":","/","/","/","b","/","p">>
HttpUrl == <<"h","t","t","p",":","/","/","r","/","s">>
HttpsUrl == <<"h","t","t","p","s",":","/","/","r","/","f">>
FilesystemUrl == <<"f","i","l","e","s","y","s","t","e","m",":","h","t","t","p",":","/","/","r","/","q">>
SubUrls == {LocalImgUrl, HttpUrl, HttpsUrl, FilesystemUrl}

\* str.startswith
StartsWith(s, prefix) == Len(s) >= Len(prefix) /\ SubSeq(s, 1, Len(prefix)) = prefix

\* mutant of route_handler: the test is url.startswith("file")
route_handler_file_prefix(url) ==
    IF StartsWith(url, <<"f","i","l","e">>) THEN "continue" ELSE "abort"

\* route_handler(route): the verdict on a request to url
route_handler(url) ==
    IF StartsWith(url, <<"f","i","l","e",":","/","/">>) THEN "continue" ELSE "abort"

\* ------------------------------------------------------------- margins
MarginChars == {"m", ",", " "}
MarginInputs == SeqsUpTo(MarginChars, MaxMarginLen)

\* str.split(sep)
RECURSIVE Split(_, _)
Split(s, sep) ==
    LET at == {i \in 1..Len(s) : s[i] = sep}
    IN  IF at = {} THEN <<s>>
        ELSE LET i == CHOOSE k \in at : \A m \in at : k <= m
             IN  <<SubSeq(s, 1, i - 1)>> \o Split(SubSeq(s, i + 1, Len(s)), sep)

\* str.strip()
RECURSIVE Strip(_)
Strip(s) ==
    IF s = <<>> THEN s
    ELSE IF s[1] = " " THEN Strip(Tail(s))
    ELSE IF s[Len(s)] = " " THEN Strip(SubSeq(s, 1, Len(s) - 1))
    ELSE s

\* mutant of ParseMargin: the tokens are not stripped
ParseMargin_unstripped(margin) ==
    LET parts == Split(margin, ",")
    IN  IF Len(parts) = 4 THEN [ok |-> TRUE, out |-> parts] ELSE [ok |-> FALSE, out |-> <<>>]

\* top, right, bottom, left = [x.strip() for x in args.margin.split(",")]:
\* the four margins, or [ok |-> FALSE] when the unpacking raises ValueError
ParseMargin(margin) ==
    LET parts == Split(margin, ",")
    IN  IF Len(parts) = 4
        THEN [ok |-> TRUE, out |-> [i \in 1..4 |-> Strip(parts[i])]]
        ELSE Raised

\* PdfOptions(): margin_top, margin_right, margin_bottom, margin_left
DefaultMargins ==
    <<<<"1","6","m","m">>, <<"1","4","m","m">>, <<"1","6","m","m">>, <<"1","4","m","m">>>>

\* ------------------------------------------------------------- state
VARIABLES
    call,             \* a direct call of one of the two helpers: its arguments and result
    entry,            \* "api": html_to_pdf is called directly; "main": through the CLI; "pure"
    cli,              \* main: the parsed command line, what was printed, the exit code
    disk,             \* the HTML file and the CSS file on disk: whether each exists, its text
    args,             \* html_to_pdf's keyword arguments
    pdf_opts,         \* PdfOptions: the four margins
    pc,               \* the statement html_to_pdf (or main) is at
    html_text,        \* the local html_text
    out_dir,          \* output_pdf_path.parent has been created
    reads,            \* the files read so far
    tmp_dir,          \* the TemporaryDirectory: "none", "exists", "removed"
    tmp_file,         \* index.html in it: [written, text]
    driver,           \* async_playwright(): "none", "running", "stopped"
    browser,          \* "none", "open", "closed"
    context,          \* "none", "open", "closed"
    page,             \* "none", "open"
    route_installed,  \* page.route("**/*", route_handler) has been awaited
    media,            \* the emulated media: "unset", "print"
    requests,         \* the requests the page has issued, each with its verdict
    pdf_written,      \* page.pdf wrote the output file
    exc,              \* the exception in flight: [kind, cause]
    faults,           \* history: the awaited calls that raised
    trace             \* history: the statements executed, in order

vars == <<call, entry, cli, disk, args, pdf_opts, pc, html_text, out_dir, reads, tmp_dir,
          tmp_file, driver, browser, context, page, route_installed, media, requests,
          pdf_written, exc, faults, trace>>

envVars == <<call, entry, cli, disk, args, pdf_opts>>
fsVars == <<html_text, out_dir, reads, tmp_dir, tmp_file>>
brVars == <<driver, browser, context, page, route_installed, media, requests, pdf_written>>

NoExc == [kind |-> "none", cause |-> "none"]
Exc(kind) == [kind |-> kind, cause |-> "none"]
\* raise HtmlToPdfError(f"PDF render xatosi: {e}") from e
HtmlToPdfError(e) == [kind |-> "HtmlToPdfError", cause |-> e.kind]
\* what an awaited Playwright call raises
PlaywrightError == Exc("playwright.Error")

NoText == [given |-> FALSE, text |-> <<>>]
Text(t) == [given |-> TRUE, text |-> t]
NoFile == [exists |-> FALSE, text |-> <<>>]
File(t) == [exists |-> TRUE, text |-> t]
NoCall == [fn |-> "none", html |-> <<>>, css |-> <<>>, state |-> "idle", out |-> <<>>]
NoCli == [margin |-> <<>>, no_network |-> FALSE, css |-> FALSE, printed |-> "", exit_code |-> -1]
NoArgs == [html |-> NoText, html_path |-> FALSE, css_path |-> FALSE,
           add_base_tag |-> TRUE, allow_network |-> TRUE]

\* the documents and stylesheets conversions are run on
SampleHtmls == {<<"<head", ">", "</head", ">">>, <<"er">>}
SampleCss == {<<"x">>, <<BS, "d">>}

Fresh ==
    /\ pdf_opts = DefaultMargins
    /\ html_text = <<>>
    /\ out_dir = FALSE
    /\ reads = {}
    /\ tmp_dir = "none"
    /\ tmp_file = NoFile
    /\ driver = "none"
    /\ browser = "none"
    /\ context = "none"
    /\ page = "none"
    /\ route_installed = FALSE
    /\ media = "unset"
    /\ requests = {}
    /\ pdf_written = FALSE
    /\ exc = NoExc
    /\ faults = {}
    /\ trace = <<>>

Disks ==
    {d \in [html : {NoFile} \cup {File(t) : t \in SampleHtmls},
            css : {NoFile} \cup {File(t) : t \in SampleCss}] : TRUE}

\* a direct call of html_to_pdf; a path that is not passed names no file of the model
InitApi ==
    /\ entry = "api"
    /\ call = NoCall
    /\ cli = NoCli
    /\ pc = "validate"
    /\ disk \in Disks
    /\ args \in [html : {NoText} \cup {Text(t) : t \in SampleHtmls},
                 html_path : BOOLEAN, css_path : BOOLEAN,
                 add_base_tag : BOOLEAN, allow_network : BOOLEAN]
    /\ ~args.html_path => disk.html = NoFile
    /\ ~args.css_path => disk.css = NoFile
    /\ Fresh

\* python html_to_pdf.py INPUT [--css FILE] [--no-network] [--margin M]
InitMain ==
    /\ entry = "main"
    /\ call = NoCall
    /\ pc = "main"
    /\ disk \in Disks
    /\ cli \in [margin : MarginInputs, no_network : BOOLEAN, css : BOOLEAN,
                printed : {""}, exit_code : {-1}]
    /\ ~cli.css => disk.css = NoFile
    /\ args = NoArgs
    /\ Fresh


\* ------------------------------------------------------------- html_to_pdf
\* mutant of BadInputConfiguration: only "neither" is refused
BadInputConfiguration_neither(a) == ~a.html.given /\ ~a.html_path

\* (html is None) == (html_path is None)
BadInputConfiguration(a) == (~a.html.given) = (~a.html_path)

\* the exception leaves html_to_pdf before the with blocks are entered
RaiseEarly(kind) ==
    /\ exc' = Exc(kind)
    /\ pc' = "done"

\* line 87: the one-of check
Validate ==
    /\ pc = "validate"
    /\ trace' = Append(trace, "check_one_of")
    /\ IF BadInputConfiguration(args) THEN RaiseEarly("ValueError")
       ELSE pc' = "mkdir" /\ exc' = exc
    /\ UNCHANGED <<envVars, fsVars, brVars, faults>>

\* lines 90-91: output_pdf_path.parent.mkdir(parents=True, exist_ok=True)
Mkdir ==
    /\ pc = "mkdir"
    /\ trace' = Append(trace, "mkdir_output_parent")
    /\ out_dir' = TRUE
    /\ pc' = "load"
    /\ UNCHANGED <<envVars, html_text, reads, tmp_dir, tmp_file, brVars, exc, faults>>

\* lines 93-101: read the HTML file, or take the HTML text
LoadHtml ==
    /\ pc = "load"
    /\ IF args.html_path
       THEN IF ~disk.html.exists
            THEN /\ trace' = Append(trace, "check_html_exists")
                 /\ RaiseEarly("FileNotFoundError")
                 /\ UNCHANGED <<html_text, reads>>
            ELSE /\ trace' = trace \o <<"check_html_exists", "read_html">>
                 /\ html_text' = disk.html.text
                 /\ reads' = reads \cup {"html"}
                 /\ pc' = "css"
                 /\ exc' = exc
       ELSE /\ trace' = trace
            /\ html_text' = args.html.text
            /\ pc' = "css"
            /\ UNCHANGED <<reads, exc>>
    /\ UNCHANGED <<envVars, out_dir, tmp_dir, tmp_file, brVars, faults>>

\* lines 104-108: the extra CSS
ApplyCss ==
    /\ pc = "css"
    /\ IF args.css_path
       THEN IF ~disk.css.exists
            THEN /\ trace' = Append(trace, "check_css_exists")
                 /\ RaiseEarly("FileNotFoundError")
                 /\ UNCHANGED <<html_text, reads>>
            ELSE LET r == _wrap_with_css(html_text, disk.css.text)
                 IN  /\ trace' = trace \o <<"check_css_exists", "read_css", "wrap_with_css">>
                     /\ reads' = reads \cup {"css"}
                     /\ IF r.ok
                        THEN html_text' = r.out /\ pc' = "base" /\ exc' = exc
                        ELSE html_text' = html_text /\ RaiseEarly("re.error")
       ELSE /\ pc' = "base"
            /\ UNCHANGED <<trace, html_text, reads, exc>>
    /\ UNCHANGED <<envVars, out_dir, tmp_dir, tmp_file, brVars, faults>>

\* lines 111-113: the base tag
ApplyBase ==
    /\ pc = "base"
    /\ IF args.add_base_tag
       THEN /\ trace' = Append(trace, "inject_base_tag")
            /\ html_text' = _inject_base_tag(html_text, BaseHref).out
       ELSE UNCHANGED <<trace, html_text>>
    /\ pc' = "tmp"
    /\ UNCHANGED <<envVars, out_dir, reads, tmp_dir, tmp_file, brVars, exc, faults>>

\* lines 116-118: the temporary directory and index.html in it
WriteTmp ==
    /\ pc = "tmp"
    /\ trace' = trace \o <<"make_tmp_dir", "write_tmp_html">>
    /\ tmp_dir' = "exists"
    /\ tmp_file' = File(html_text)
    /\ pc' = "playwright"
    /\ UNCHANGED <<envVars, html_text, out_dir, reads, brVars, exc, faults>>

\* line 120: async with async_playwright() as p
StartPlaywright ==
    /\ pc = "playwright"
    /\ trace' = Append(trace, "start_playwright")
    /\ driver' = "running"
    /\ pc' = "launch"
    /\ UNCHANGED <<envVars, fsVars, browser, context, page, route_installed, media,
                   requests, pdf_written, exc, faults>>

\* an awaited call at lines 121-137 raises: no handler, no finally; the two
\* with blocks are left
RaiseInSetup(step) ==
    /\ exc' = PlaywrightError
    /\ faults' = faults \cup {step}
    /\ pc' = "playwright_exit"

\* line 121: browser = await p.chromium.launch()
Launch ==
    /\ pc = "launch"
    /\ trace' = Append(trace, "launch")
    /\ \E ok \in BOOLEAN :
         IF ok THEN browser' = "open" /\ pc' = "new_context" /\ UNCHANGED <<exc, faults>>
         ELSE browser' = browser /\ RaiseInSetup("launch")
    /\ UNCHANGED <<envVars, fsVars, driver, context, page, route_installed, media,
                   requests, pdf_written>>

\* line 122: context = await browser.new_context()
NewContext ==
    /\ pc = "new_context"
    /\ trace' = Append(trace, "new_context")
    /\ \E ok \in BOOLEAN :
         IF ok THEN context' = "open" /\ pc' = "new_page" /\ UNCHANGED <<exc, faults>>
         ELSE context' = context /\ RaiseInSetup("new_context")
    /\ UNCHANGED <<envVars, fsVars, driver, browser, page, route_installed, media,
                   requests, pdf_written>>

\* line 124: page = await context.new_page()
NewPage ==
    /\ pc = "new_page"
    /\ trace' = Append(trace, "new_page")
    /\ \E ok \in BOOLEAN :
         IF ok THEN page' = "open" /\ pc' = "route" /\ UNCHANGED <<exc, faults>>
         ELSE page' = page /\ RaiseInSetup("new_page")
    /\ UNCHANGED <<envVars, fsVars, driver, browser, context, route_installed, media,
                   requests, pdf_written>>

\* lines 127-134: if not render.allow_network: await page.route("**/*", route_handler)
InstallRoute ==
    /\ pc = "route"
    /\ IF args.allow_network
       THEN /\ pc' = "emulate_media"
            /\ UNCHANGED <<trace, route_installed, exc, faults>>
       ELSE /\ trace' = Append(trace, "route")
            /\ \E ok \in BOOLEAN :
                 IF ok THEN /\ route_installed' = TRUE
                            /\ pc' = "emulate_media"
                            /\ UNCHANGED <<exc, faults>>
                 ELSE route_installed' = route_installed /\ RaiseInSetup("route")
    /\ UNCHANGED <<envVars, fsVars, driver, browser, context, page, media, requests,
                   pdf_written>>

\* line 137: await page.emulate_media(media=render.emulate_media)
EmulateMedia ==
    /\ pc = "emulate_media"
    /\ trace' = Append(trace, "emulate_media")
    /\ \E ok \in BOOLEAN :
         IF ok THEN media' = "print" /\ pc' = "goto" /\ UNCHANGED <<exc, faults>>
         ELSE media' = media /\ RaiseInSetup("emulate_media")
    /\ UNCHANGED <<envVars, fsVars, driver, browser, context, page, route_installed,
                   requests, pdf_written>>


\* what the page does with a request: the handler's verdict when the route is installed
Verdict(url) == IF route_installed THEN route_handler(url) ELSE "direct"

\* lines 181-182: except Exception as e: raise HtmlToPdfError(...) from e; then the finally
RaiseInTry(step) ==
    /\ exc' = HtmlToPdfError(PlaywrightError)
    /\ faults' = faults \cup {step}
    /\ pc' = "context_close"

\* line 140: await page.goto(tmp_html.as_uri(), ...): the request for the document;
\* a document request that is aborted fails the navigation
Goto ==
    /\ pc = "goto"
    /\ trace' = Append(trace, "goto")
    /\ requests' = requests \cup {[url |-> TmpHtmlUri, verdict |-> Verdict(TmpHtmlUri)]}
    /\ IF Verdict(TmpHtmlUri) = "abort"
       THEN RaiseInTry("goto_aborted")
       ELSE pc' = "loading" /\ UNCHANGED <<exc, faults>>
    /\ UNCHANGED <<envVars, fsVars, driver, browser, context, page, route_installed,
                   media, pdf_written>>

\* while the document loads the page requests a subresource; route_handler decides
SubresourceRequest ==
    /\ pc = "loading"
    /\ Cardinality(requests) <= MaxRequests
    /\ \E url \in SubUrls :
         /\ \A r \in requests : r.url # url
         /\ requests' = requests \cup {[url |-> url, verdict |-> Verdict(url)]}
    /\ UNCHANGED <<envVars, fsVars, driver, browser, context, page, route_installed,
                   media, pdf_written, pc, exc, faults, trace>>

\* mutant of GotoSettle: a failed navigation is swallowed and the export goes on
GotoSettle_swallow ==
    /\ pc = "loading"
    /\ \E ok \in BOOLEAN :
         /\ faults' = IF ok THEN faults ELSE faults \cup {"goto"}
         /\ pc' = "fonts"
         /\ exc' = exc
    /\ UNCHANGED <<envVars, fsVars, brVars, trace>>

\* page.goto returns when wait_until is reached, or raises (a timeout, a crash)
GotoSettle ==
    /\ pc = "loading"
    /\ \E ok \in BOOLEAN :
         IF ok THEN pc' = "fonts" /\ UNCHANGED <<exc, faults>>
         ELSE RaiseInTry("goto")
    /\ UNCHANGED <<envVars, fsVars, brVars, trace>>

\* mutant of FontWait: the failure is handled like every other failure in the try block
FontWait_fatal ==
    /\ pc = "fonts"
    /\ trace' = Append(trace, "font_wait")
    /\ \E ok \in BOOLEAN :
         IF ok THEN pc' = "pdf" /\ UNCHANGED <<exc, faults>>
         ELSE /\ exc' = [kind |-> "HtmlToPdfError", cause |-> "playwright.Error"]
              /\ faults' = faults \cup {"font_wait"}
              /\ pc' = "context_close"
    /\ UNCHANGED <<envVars, fsVars, brVars>>

\* lines 147-150: try: await page.evaluate(...) except Exception: pass
FontWait ==
    /\ pc = "fonts"
    /\ trace' = Append(trace, "font_wait")
    /\ \E ok \in BOOLEAN :
         faults' = IF ok THEN faults ELSE faults \cup {"font_wait"}
    /\ pc' = "pdf"
    /\ UNCHANGED <<envVars, fsVars, brVars, exc>>

\* lines 153-179: await page.pdf(**pdf_kwargs)
Pdf ==
    /\ pc = "pdf"
    /\ trace' = Append(trace, "pdf")
    /\ \E ok \in BOOLEAN :
         IF ok THEN /\ pdf_written' = TRUE
                    /\ pc' = "context_close"
                    /\ UNCHANGED <<exc, faults>>
         ELSE pdf_written' = pdf_written /\ RaiseInTry("pdf")
    /\ UNCHANGED <<envVars, fsVars, driver, browser, context, page, route_installed,
                   media, requests>>

\* an awaited call of the finally block raises: the new exception replaces the one
\* in flight and the rest of the block is skipped
RaiseInFinally(step) ==
    /\ exc' = PlaywrightError
    /\ faults' = faults \cup {step}
    /\ pc' = "playwright_exit"

\* line 184: finally: await context.close()
ContextClose ==
    /\ pc = "context_close"
    /\ trace' = Append(trace, "context_close")
    /\ \E ok \in BOOLEAN :
         IF ok THEN context' = "closed" /\ pc' = "browser_close" /\ UNCHANGED <<exc, faults>>
         ELSE context' = context /\ RaiseInFinally("context_close")
    /\ UNCHANGED <<envVars, fsVars, driver, browser, page, route_installed, media,
                   requests, pdf_written>>

\* line 185: await browser.close()
BrowserClose ==
    /\ pc = "browser_close"
    /\ trace' = Append(trace, "browser_close")
    /\ \E ok \in BOOLEAN :
         IF ok THEN browser' = "closed" /\ pc' = "playwright_exit" /\ UNCHANGED <<exc, faults>>
         ELSE browser' = browser /\ RaiseInFinally("browser_close")
    /\ UNCHANGED <<envVars, fsVars, driver, context, page, route_installed, media,
                   requests, pdf_written>>

\* line 120: the async with block is left: the Playwright driver is stopped
PlaywrightExit ==
    /\ pc = "playwright_exit"
    /\ trace' = Append(trace, "stop_playwright")
    /\ driver' = "stopped"
    /\ pc' = "tmp_cleanup"
    /\ UNCHANGED <<envVars, fsVars, browser, context, page, route_installed, media,
                   requests, pdf_written, exc, faults>>

\* line 116: the with block is left: the temporary directory is removed;
\* line 187: return output_pdf_path, or the exception in flight leaves the call
TmpCleanup ==
    /\ pc = "tmp_cleanup"
    /\ trace' = Append(trace, "remove_tmp_dir")
    /\ tmp_dir' = "removed"
    /\ tmp_file' = NoFile
    /\ pc' = "done"
    /\ UNCHANGED <<envVars, html_text, out_dir, reads, brVars, exc, faults>>

\* ------------------------------------------------------------- main
\* lines 218-251: the margins, the options, the call of html_to_pdf
MainParse ==
    /\ pc = "main"
    /\ LET m == ParseMargin(cli.margin)
       IN  IF m.ok
           THEN /\ pdf_opts' = m.out
                /\ args' = [html |-> NoText, html_path |-> TRUE, css_path |-> cli.css,
                            add_base_tag |-> TRUE, allow_network |-> ~cli.no_network]
                /\ pc' = "validate"
                /\ cli' = cli
           ELSE /\ cli' = [cli EXCEPT !.printed = "Margin formati noto'g'ri", !.exit_code = 2]
                /\ pc' = "exited"
                /\ UNCHANGED <<pdf_opts, args>>
    /\ UNCHANGED <<call, entry, disk, fsVars, brVars, exc, faults, trace>>

\* lines 253-263: asyncio.run(runner()): log the result, or the exception ends the process
MainExit ==
    /\ pc = "done"
    /\ entry = "main"
    /\ cli' = IF exc = NoExc
              THEN [cli EXCEPT !.printed = "OK", !.exit_code = 0]
              ELSE [cli EXCEPT !.printed = "Traceback", !.exit_code = 1]
    /\ pc' = "exited"
    /\ UNCHANGED <<call, entry, disk, args, pdf_opts, fsVars, brVars, exc, faults, trace>>

\* ------------------------------------------------------------- the helpers, called directly
InitPure ==
    /\ entry = "pure"
    /\ pc = "pure"
    /\ cli = NoCli
    /\ disk = [html |-> NoFile, css |-> NoFile]
    /\ args = NoArgs
    /\ Fresh
    /\ \/ \E h \in HtmlInputs :
            call = [fn |-> "_inject_base_tag", html |-> h, css |-> <<>>,
                    state |-> "called", out |-> <<>>]
       \/ \E h \in HtmlInputs, c \in CssInputs :
            call = [fn |-> "_wrap_with_css", html |-> h, css |-> c,
                    state |-> "called", out |-> <<>>]

Finish(r) ==
    call' = [call EXCEPT !.state = IF r.ok THEN "returned" ELSE "raised", !.out = r.out]

CallInjectBaseTag ==
    /\ call.fn = "_inject_base_tag"
    /\ call.state = "called"
    /\ Finish(_inject_base_tag(call.html, BaseHref))
    /\ UNCHANGED <<entry, cli, disk, args, pdf_opts, pc, fsVars, brVars, exc, faults, trace>>

CallWrapWithCss ==
    /\ call.fn = "_wrap_with_css"
    /\ call.state = "called"
    /\ Finish(_wrap_with_css(call.html, call.css))
    /\ UNCHANGED <<entry, cli, disk, args, pdf_opts, pc, fsVars, brVars, exc, faults, trace>>

\* ------------------------------------------------------------- specifications
HtmlToPdf ==
    \/ Validate \/ Mkdir \/ LoadHtml \/ ApplyCss \/ ApplyBase \/ WriteTmp
    \/ StartPlaywright \/ Launch \/ NewContext \/ NewPage \/ InstallRoute \/ EmulateMedia
    \/ Goto \/ SubresourceRequest \/ GotoSettle \/ FontWait \/ Pdf
    \/ ContextClose \/ BrowserClose \/ PlaywrightExit \/ TmpCleanup

Init == InitApi \/ InitMain
Next == MainParse \/ HtmlToPdf \/ MainExit
Spec == Init /\ [][Next]_vars

NextPure == CallInjectBaseTag \/ CallWrapWithCss
SpecPure == InitPure /\ [][NextPure]_vars


\* ------------------------------------------------------------- properties
Idx(ev) == {i \in 1..Len(trace) : trace[i] = ev}
Did(ev) == Idx(ev) # {}
\* every ev1 in the trace comes before every ev2
Precedes(ev1, ev2) == \A i \in Idx(ev1), j \in Idx(ev2) : i < j
\* ev2 happened only after ev1 had
OnlyAfter(ev2, ev1) == Did(ev2) => (Did(ev1) /\ Precedes(ev1, ev2))

\* html_to_pdf has been called with these arguments (main has not yet built them at "main")
Called == entry \in {"api", "main"} /\ pc # "main" /\ ~(pc = "exited" /\ trace = <<>>)
Ended == Called /\ pc \in {"done", "exited"}

NoSideEffect ==
    /\ ~out_dir
    /\ reads = {}
    /\ tmp_dir = "none"
    /\ ~tmp_file.exists
    /\ driver = "none"
    /\ browser = "none"
    /\ context = "none"
    /\ page = "none"
    /\ requests = {}
    /\ ~pdf_written

BothOrNeither ==
    \/ args.html.given /\ args.html_path
    \/ ~args.html.given /\ ~args.html_path

\* C1: a call of html_to_pdf with html and html_path both None or both given ends
\* with ValueError, and up to then no directory is created, no file read or written,
\* no temporary directory made and no browser started.
C1_InvalidInputFailsBeforeIO ==
    (Called /\ BothOrNeither) =>
        /\ NoSideEffect
        /\ pc = "validate" \/ (pc = "done" /\ exc.kind = "ValueError")

C1_Witness ==
    /\ Called
    /\ args.html.given /\ args.html_path
    /\ pc = "done"
    /\ exc.kind = "ValueError"

C3_OnlyDomainError ==
    Ended =>
        /\ (faults \cap {"goto", "goto_aborted", "pdf"} # {}) =>
               exc = [kind |-> "HtmlToPdfError", cause |-> "playwright.Error"]
        /\ Did("launch") => exc.kind \in {"none", "HtmlToPdfError"}

\* the scheme of a URL: the characters before the first colon
Scheme(url) ==
    LET colons == {i \in 1..Len(url) : url[i] = ":"}
    IN  SubSeq(url, 1, (CHOOSE k \in colons : \A m \in colons : k <= m) - 1)

IsLocalFile(url) == Scheme(url) = <<"f","i","l","e">>

NetworkDisallowed ==
    /\ Called
    /\ IF entry = "main" THEN cli.no_network ELSE ~args.allow_network

\* C4: with network access disallowed the route is installed before the navigation
\* starts, every request is continued when its scheme is file and aborted otherwise,
\* and a conversion in which no awaited call raised succeeds whatever was aborted.
C4_NetworkGate ==
    NetworkDisallowed =>
        /\ OnlyAfter("goto", "route")
        /\ Did("goto") => route_installed
        /\ \A r \in requests :
               r.verdict = (IF IsLocalFile(r.url) THEN "continue" ELSE "abort")
        /\ (Ended /\ Did("goto") /\ faults \ {"goto_aborted"} = {}) =>
               (exc = NoExc /\ pdf_written)

C4_Witness ==
    /\ NetworkDisallowed
    /\ Ended
    /\ \E r \in requests : r.url = HttpUrl /\ r.verdict = "abort"
    /\ \E r \in requests : r.url = LocalImgUrl /\ r.verdict = "continue"
    /\ exc = NoExc
    /\ pdf_written

\* what the call ends with, from the awaited calls that raised after a navigation that succeeded
OutcomeAfterNavigation(failed) ==
    IF failed \cap {"context_close", "browser_close"} # {} THEN Exc("playwright.Error")
    ELSE IF "pdf" \in failed THEN [kind |-> "HtmlToPdfError", cause |-> "playwright.Error"]
    ELSE NoExc

\* C5: when the font wait fails after a navigation that succeeded, no error is raised
\* for it, the export is still attempted, and the call ends as it does when the font
\* wait succeeds: by what the export and the two close calls did.
C5_FontWaitNonFatal ==
    (Called /\ "font_wait" \in faults) =>
        /\ pc = "pdf" => exc = NoExc
        /\ pc = "pdf" \/ Did("pdf")
        /\ Ended => /\ exc = OutcomeAfterNavigation(faults \ {"font_wait"})
                    /\ pdf_written = ("pdf" \notin faults)

C5_Witness ==
    /\ Ended
    /\ "font_wait" \in faults
    /\ exc = NoExc
    /\ pdf_written


\* the positions of the commas of a margin string, and its k-th comma-separated field
Commas(m) == {i \in 1..Len(m) : m[i] = ","}
FieldStart(m, k) ==
    IF k = 1 THEN 1
    ELSE (CHOOSE p \in Commas(m) : Cardinality({q \in Commas(m) : q < p}) = k - 2) + 1
FieldEnd(m, k) ==
    IF k = Cardinality(Commas(m)) + 1 THEN Len(m)
    ELSE (CHOOSE p \in Commas(m) : Cardinality({q \in Commas(m) : q < p}) = k - 1) - 1
Field(m, k) == SubSeq(m, FieldStart(m, k), FieldEnd(m, k))

\* u is t without its leading and trailing blanks
IsStripOf(u, t) ==
    /\ u = <<>> \/ (u[1] # " " /\ u[Len(u)] # " ")
    /\ \E a \in 0..Len(t) :
         /\ a + Len(u) <= Len(t)
         /\ SubSeq(t, a + 1, a + Len(u)) = u
         /\ \A i \in (1..a) \cup ((a + Len(u) + 1)..Len(t)) : t[i] = " "

\* C8: a --margin value with exactly four comma-separated tokens gives the margins
\* top, right, bottom, left, each the stripped token, in that order, and html_to_pdf
\* is called; any other value prints the usage message and exits with status 2,
\* html_to_pdf is never called and nothing is written.
C8_MarginParsing ==
    (entry = "main" /\ pc # "main") =>
        IF Cardinality(Commas(cli.margin)) = 3
        THEN /\ \A k \in 1..4 : IsStripOf(pdf_opts[k], Field(cli.margin, k))
             /\ pc = "validate" \/ Did("check_one_of")
             /\ cli.exit_code # 2
        ELSE /\ pc = "exited"
             /\ cli.exit_code = 2
             /\ cli.printed = "Margin formati noto'g'ri"
             /\ trace = <<>>
             /\ NoSideEffect

C8_Witness ==
    /\ entry = "main"
    /\ pc = "exited"
    /\ cli.margin = <<",", "m", ",", ",">>
    /\ pdf_opts = << <<>>, <<"m">>, <<>>, <<>> >>
    /\ cli.exit_code = 0
    /\ pdf_written

ValidationEvents == {"check_one_of", "check_html_exists", "check_css_exists"}
PreparationEffects == {"mkdir_output_parent", "make_tmp_dir", "write_tmp_html"}

\* the clauses of C9 after the first
RenderExportOrder ==
    /\ Precedes("wrap_with_css", "inject_base_tag")
    /\ OnlyAfter("goto", "emulate_media")
    /\ Did("goto") => media = "print"
    /\ Did("pdf") => (Did("goto") /\ Precedes("goto", "pdf")
                      /\ faults \cap {"goto", "goto_aborted"} = {})
    /\ \A ev \in {"context_close", "browser_close", "stop_playwright", "remove_tmp_dir"} :
           Precedes("pdf", ev)
    /\ (Ended /\ Did("pdf")) => (Did("context_close") /\ Did("remove_tmp_dir"))
    /\ Cardinality(Idx("goto")) <= 1
    /\ Cardinality(Idx("pdf")) <= 1

\* C9 as stated: every validation (the one-of check, the two existence checks) comes
\* before every preparation side effect, CSS injection before base-tag injection,
\* media emulation before navigation, export only after a navigation that succeeded,
\* teardown after export, navigation and export at most once.
C9_ValidationBeforePreparation ==
    /\ \A i, j \in 1..Len(trace) :
           (trace[i] \in PreparationEffects /\ trace[j] \in ValidationEvents) => j < i
    /\ RenderExportOrder

\* the order of the statements of html_to_pdf
Rank(ev) ==
    CASE ev = "check_one_of" -> 1
      [] ev = "mkdir_output_parent" -> 2
      [] ev = "check_html_exists" -> 3
      [] ev = "read_html" -> 4
      [] ev = "check_css_exists" -> 5
      [] ev = "read_css" -> 6
      [] ev = "wrap_with_css" -> 7
      [] ev = "inject_base_tag" -> 8
      [] ev = "make_tmp_dir" -> 9
      [] ev = "write_tmp_html" -> 10
      [] ev = "start_playwright" -> 11
      [] ev = "launch" -> 12
      [] ev = "new_context" -> 13
      [] ev = "new_page" -> 14
      [] ev = "route" -> 15
      [] ev = "emulate_media" -> 16
      [] ev = "goto" -> 17
      [] ev = "font_wait" -> 18
      [] ev = "pdf" -> 19
      [] ev = "context_close" -> 20
      [] ev = "browser_close" -> 21
      [] ev = "stop_playwright" -> 22
      [] ev = "remove_tmp_dir" -> 23

\* C9 as amended: the one-of check comes before everything else; the output's parent
\* directory is created next, before the two existence checks; each existence check
\* comes before the read of its file, and both before the HTML is rewritten, the
\* temporary file written and the browser started; the other clauses as stated.
C9_LinearOrder ==
    /\ \A i \in 1..(Len(trace) - 1) : Rank(trace[i]) < Rank(trace[i + 1])
    /\ trace # <<>> => trace[1] = "check_one_of"
    /\ OnlyAfter("check_html_exists", "mkdir_output_parent")
    /\ OnlyAfter("check_css_exists", "mkdir_output_parent")
    /\ OnlyAfter("read_html", "check_html_exists")
    /\ OnlyAfter("read_css", "check_css_exists")
    /\ Did("make_tmp_dir") => (args.html_path => Did("check_html_exists"))
                              /\ (args.css_path => Did("check_css_exists"))
    /\ RenderExportOrder

C9_Witness ==
    /\ Ended
    /\ args.html_path /\ args.css_path
    /\ Did("wrap_with_css") /\ Did("inject_base_tag") /\ Did("route")
    /\ exc = NoExc
    /\ pdf_written

\* a head opening tag starts at token i: its name ends there
HeadTagAt(html, i) ==
    /\ Lower(html[i]) = "<head"
    /\ i < Len(html)
    /\ html[i + 1] \in {">", " "}
    /\ \E j \in (i + 1)..Len(html) : html[j] = ">"
HeadTags(html) == {i \in 1..Len(html) : HeadTagAt(html, i)}
\* the position of the ">" that ends the first head opening tag
FirstHeadTagEnd(html) ==
    LET i == CHOOSE k \in HeadTags(html) : \A m \in HeadTags(html) : k <= m
    IN  CHOOSE j \in (i + 1)..Len(html) :
            html[j] = ">" /\ \A m \in (i + 1)..(j - 1) : html[m] # ">"
Count(text, tok) == Cardinality({i \in 1..Len(text) : text[i] = tok})

\* every tag of the text is closed before the next one opens
OpensTag(t) == t \in {"<head", "<HEAD", "</head"}
TagsClosed(html) ==
    \A i \in 1..Len(html) :
        OpensTag(html[i]) =>
            \E j \in (i + 1)..Len(html) :
                html[j] = ">" /\ \A m \in (i + 1)..(j - 1) : ~OpensTag(html[m])

\* C6: for an HTML text of closed tags with a head element, _inject_base_tag returns the text with
\* one base tag (after a line break and indentation) inserted right after the end of
\* the first head opening tag, and the text before and after it unchanged.
C6_BaseTagAfterFirstHeadTag ==
    (/\ call.fn = "_inject_base_tag"
     /\ call.state # "called"
     /\ TagsClosed(call.html)
     /\ HeadTags(call.html) # {}) =>
        LET e == FirstHeadTagEnd(call.html)
        IN  /\ call.state = "returned"
            /\ call.out = SubSeq(call.html, 1, e) \o <<NL, Indent>> \o base_tag(BaseHref)
                          \o SubSeq(call.html, e + 1, Len(call.html))
            /\ Count(call.out, "<base href=\"") = 1

\* the head-closing tags of a text: the positions where one starts
HeadCloseTags(html) ==
    {i \in 1..Len(html) : \E j \in 1..Len(html) : CloseMatchAt(html, i, j)}

StyleBlock(css) == <<StyleOpen, NL>> \o css \o <<NL, StyleClose>>

\* C7: for every CSS text and every HTML text of closed tags with a head element and one head-closing
\* tag, _wrap_with_css returns the text with the style block holding the CSS inserted
\* before the closing tag, which is still the only one.
C7_StyleBeforeHeadClose ==
    (/\ call.fn = "_wrap_with_css"
     /\ call.state # "called"
     /\ TagsClosed(call.html)
     /\ HeadTags(call.html) # {}
     /\ Cardinality(HeadCloseTags(call.html)) = 1) =>
        LET c == CHOOSE i \in HeadCloseTags(call.html) : TRUE
        IN  /\ call.state = "returned"
            /\ call.out = SubSeq(call.html, 1, c - 1) \o StyleBlock(call.css) \o <<NL>>
                          \o SubSeq(call.html, c, Len(call.html))
            /\ Cardinality(HeadCloseTags(call.out)) = 1

\* text holds '<style>', then the CSS, then '</style>'
HoldsStyleBlock(text, css) ==
    \E i, j, k \in 1..Len(text) :
        /\ text[i] = StyleOpen
        /\ i < j
        /\ j + Len(css) <= k
        /\ SubSeq(text, j, j + Len(css) - 1) = css
        /\ text[k] = StyleClose

\* C10: for every HTML text and every CSS text _wrap_with_css returns, and what it
\* returns holds '<style>', the CSS text unmodified and '</style>' in that order.
C10_CssVerbatim ==
    (call.fn = "_wrap_with_css" /\ call.state # "called") =>
        /\ call.state = "returned"
        /\ HoldsStyleBlock(call.out, call.css)

=============================================================================
